---- MODULE Spec2Model ----
(***************************************************************************)
(* Model of the GSC analytics dashboard: the date-window planner           *)
(* (src/app.py get_date_ranges, calculate_date_ranges and the date-range   *)
(* section of main), the fetch-and-merge loop of main, and the             *)
(* period-over-period change computation of DataVisualizer.create_heatmap. *)
(*                                                                         *)
(* Dates are proleptic Gregorian ordinals (datetime.date.toordinal), so a  *)
(* timedelta is integer addition.  Metric values with one decimal          *)
(* (position, ctr in percent, changes in percent) are held in tenths.      *)
(***************************************************************************)
EXTENDS Integers, Sequences, FiniteSets, TLC

VARIABLES
    today,          \* the value datetime.date.today() returns
    plan_call,      \* the planner call last made: function, arguments
    plan,           \* the list that call returned
    plan_status,    \* "none", "returned" or "raised"
    \* st.session_state
    date_range,           \* the "Select Period" choice
    comparison_enabled,
    comparison_periods,
    current_urls,         \* << >> also stands for "not set"
    \* one run of main
    pc,             \* "idle", "fetch", "merged", "charts" or "done"
    date_ranges,    \* the windows of this run
    url_i,          \* position of the loop over current_urls
    win_i,          \* position of the loop over date_ranges
    all_data,       \* the non-empty frames collected so far
    combined_df,    \* the merged wide table
    message,        \* what the run reported: st.warning / st.error / st.info
    fetch_log,      \* every fetch_search_analytics call of this run and its outcome
    summary,        \* what create_metric_summary gave this run
    arith_on_text,  \* this run applied arithmetic to a column of '%' strings
    \* a call of DataVisualizer.create_heatmap
    heat_df,        \* the table passed as df
    heat_metric,    \* the metric passed, "" before the call
    heat_periods,   \* the period labels passed, as period numbers
    heat_status,    \* "none", "ok" or "raised"
    changes,        \* the changes frame: one column per adjacent pair of periods
    change_cols,    \* the column names of the changes frame, in column order
    insp_urls,      \* batch_inspect_urls: the urls argument
    max_workers,    \* batch_inspect_urls: the max_workers argument
    inspect_outcome, \* what gsc_api.inspect_url does for each URL
    insp_pc,        \* "idle", "called", "running", "returned" or "raised"
    futures,        \* one future per submitted list entry: state and result
    results,        \* the results dict of batch_inspect_urls
    calls,          \* number of gsc_api.inspect_url calls made by the batch
    yielded,        \* the futures as_completed has yielded, in that order
    fmt_payload,    \* format_inspection_results: the payload passed
    fmt_pc,         \* "idle", "called" or "returned"
    fmt_result,     \* what format_inspection_results returned
    exp_df,         \* prepare_export_data: the table passed as df
    exp_summary,    \* prepare_export_data: the summary passed
    exp_pc,         \* "idle", "called" or "returned"
    export_data,    \* what prepare_export_data returned
    bf_urls,        \* batch_fetch_urls: the urls argument
    bf_pc,          \* "idle", "loop" or "returned"
    bf_log,         \* the fetch_search_analytics calls of the batch and their outcomes
    bf_all_data,    \* the all_data list of batch_fetch_urls
    bf_result,      \* the frame batch_fetch_urls returned
    saved_url_lists, \* st.session_state.saved_url_lists
    store_call,     \* the last URLManager call: function, name and urls
    store_ret,      \* what the last URLManager call returned
    credentials     \* st.session_state.credentials

planner_vars == << plan_call, plan, plan_status >>

main_vars == << date_range, comparison_enabled, comparison_periods, current_urls,
                pc, date_ranges, url_i, win_i, all_data, combined_df, message,
                fetch_log, summary, arith_on_text >>

heat_vars == << heat_df, heat_metric, heat_periods, heat_status, changes,
               change_cols >>

insp_vars == << insp_urls, max_workers, inspect_outcome, insp_pc, futures,
                results, calls, yielded >>

fmt_vars == << fmt_payload, fmt_pc, fmt_result >>

export_vars == << exp_df, exp_summary, exp_pc, export_data >>

batch_vars == << bf_urls, bf_pc, bf_log, bf_all_data, bf_result >>

store_vars == << saved_url_lists, store_call, store_ret >>

\* the variables outside the four specifications above
aux_vars == << fmt_vars, export_vars, batch_vars, store_vars, credentials >>

vars == << today, plan_call, plan, plan_status, date_range, comparison_enabled,
           comparison_periods, current_urls, pc, date_ranges, url_i, win_i,
           all_data, combined_df, message, fetch_log, summary, arith_on_text,
           heat_df, heat_metric, heat_periods, heat_status, changes,
           change_cols, insp_urls, max_workers, inspect_outcome, insp_pc, futures,
           results, calls, yielded, aux_vars >>

----------------------------------------------------------------------------
(* Bounds of the model *)

\* the planner is called with period counts -1 .. MaxCount
MaxCount == 4
\* get_date_ranges is also called with the short periods 1 .. MaxSmallDays
MaxSmallDays == 3
\* the planner is exercised on PlannerTodaySpan + 1 consecutive days
PlannerTodaySpan == 6
\* main runs on MainTodaySpan + 1 consecutive days
MainTodaySpan == 0
\* main compares up to MaxCompare periods (the input allows up to 4)
MaxCompare == 2
\* the loaded URL lists have up to MaxUrls entries
MaxUrls == 2
\* create_heatmap is called with the labels Period_1 .. Period_MaxHeatPeriods
MaxHeatPeriods == 3
\* batch_inspect_urls is called with up to MaxInspectUrls list entries
MaxInspectUrls == 3
\* batch_inspect_urls is called with max_workers in 1 .. MaxWorkers
MaxWorkers == 2
\* save_url_list is called with lists of up to MaxStoreUrls entries
MaxStoreUrls == 2
\* batch_fetch_urls is called with up to MaxBatchUrls list entries
MaxBatchUrls == 3
\* prepare_export_data is called with summaries over Period_1 .. Period_MaxExportPeriods
MaxExportPeriods == 2

----------------------------------------------------------------------------
(* The calendar: datetime.date and dateutil.relativedelta *)

Min(a, b) == IF a <= b THEN a ELSE b

Abs(a) == IF a < 0 THEN 0 - a ELSE a

IsLeap(y) == (y % 4 = 0) /\ ((y % 100 # 0) \/ (y % 400 = 0))

DaysInMonth(y, m) ==
    IF m = 2 THEN (IF IsLeap(y) THEN 29 ELSE 28)
    ELSE IF m \in {4, 6, 9, 11} THEN 30 ELSE 31

\* days before January 1st of year y
DaysBeforeYear(y) ==
    LET p == y - 1 IN p * 365 + (p \div 4) - (p \div 100) + (p \div 400)

RECURSIVE DaysBeforeMonth(_, _)
DaysBeforeMonth(y, m) ==
    IF m = 1 THEN 0 ELSE DaysBeforeMonth(y, m - 1) + DaysInMonth(y, m - 1)

\* datetime.date(y, m, d).toordinal()
ToOrdinal(y, m, d) == DaysBeforeYear(y) + DaysBeforeMonth(y, m) + d

\* the years in which the model converts an ordinal back to a civil date
Years == 2020 .. 2030

\* datetime.date.fromordinal(n), for n within Years
FromOrdinal(n) ==
    LET y == CHOOSE yy \in Years :
                 DaysBeforeYear(yy) < n /\ n <= DaysBeforeYear(yy + 1)
        r == n - DaysBeforeYear(y)
        m == CHOOSE mm \in 1 .. 12 :
                 DaysBeforeMonth(y, mm) < r
                 /\ r <= DaysBeforeMonth(y, mm) + DaysInMonth(y, mm)
    IN  [y |-> y, m |-> m, d |-> r - DaysBeforeMonth(y, m)]

\* date - relativedelta(years=years, days=days): the year is shifted first and
\* the day of the month clamped to the month's length, then the days are taken off
SubRelativeDelta(date, years, days) ==
    LET c == FromOrdinal(date)
        y == c.y - years
        d == Min(DaysInMonth(y, c.m), c.d)
    IN  ToOrdinal(y, c.m, d) - days

\* the first day on which the model runs the program: 2024-02-28
FirstToday == ToOrdinal(2024, 2, 28)

----------------------------------------------------------------------------
(* The date-window planner: app.py get_date_ranges, calculate_date_ranges *)

\* the numeric period lengths of PERIOD_OPTIONS
PeriodDays == {30, 60, 90, 180, 360}

PERIOD_OPTIONS ==
    [k \in {"30 Days", "60 Days", "90 Days", "180 Days", "360 Days",
            "Year over Year"} |->
        CASE k = "30 Days" -> 30
          [] k = "60 Days" -> 60
          [] k = "90 Days" -> 90
          [] k = "180 Days" -> 180
          [] k = "360 Days" -> 360
          [] OTHER -> 0]      \* "YoY": never read as a number

\* get_date_ranges with its windows overlapping by one day
get_date_ranges_overlap(t, days, periods) ==
    [i \in 1 .. periods |->
        LET end_date == t - 1 - ((days - 1) * (i - 1))
        IN  << end_date - (days - 1), end_date >>]

\* get_date_ranges(days, periods) on the day t; range(periods) is empty for
\* periods <= 0
get_date_ranges(t, days, periods) ==
    [i \in 1 .. periods |->
        LET end_date == t - 1 - (days * (i - 1))
        IN  << end_date - (days - 1), end_date >>]

\* the loop of calculate_date_ranges: i windows still to produce, the next
\* one ending on end_date
RECURSIVE calculate_loop(_, _, _)
calculate_loop(days, i, end_date) ==
    IF i <= 0 THEN << >>
    ELSE LET start_date == end_date - (days - 1)
         IN  << << start_date, end_date >> >>
             \o calculate_loop(days, i - 1, start_date - 1)

\* calculate_date_ranges(period, num_periods) on the day t
calculate_date_ranges(t, period, num_periods) ==
    LET yesterday == t - 1 IN
    IF period = "Year over Year"
    THEN LET current_end == yesterday
             current_start == current_end - 29
             last_year_end == current_end - 365
             last_year_start == current_start - 365
         IN  << << last_year_start, last_year_end >>,
                << current_start, current_end >> >>
    ELSE calculate_loop(PERIOD_OPTIONS[period], num_periods, yesterday)

CountInputs == -1 .. MaxCount

DayInputs == PeriodDays \cup (1 .. MaxSmallDays)

PlannerTodays == FirstToday .. (FirstToday + PlannerTodaySpan)

NoCall == [fn |-> "none", period |-> "", days |-> 0, n |-> 0]

\* combined_df before any merge: a frame without columns and rows
NoTable == [cols |-> {}, rows |-> << >>]

\* no summary computed
NoSummary == [status |-> "none"]

\* no planner call made yet
PlannerIdle ==
    /\ plan_call = NoCall
    /\ plan = << >>
    /\ plan_status = "none"

\* st.session_state after init_session_state, no run of main begun
MainIdle ==
    /\ date_range = "30"
    /\ comparison_enabled = FALSE
    /\ comparison_periods = 1
    /\ current_urls = << >>
    /\ pc = "idle"
    /\ date_ranges = << >>
    /\ url_i = 0
    /\ win_i = 0
    /\ all_data = << >>
    /\ combined_df = NoTable
    /\ message = "none"
    /\ fetch_log = << >>
    /\ summary = NoSummary
    /\ arith_on_text = FALSE

\* no create_heatmap call made yet
HeatIdle ==
    /\ heat_df = NoTable
    /\ heat_metric = ""
    /\ heat_periods = << >>
    /\ heat_status = "none"
    /\ changes = << >>
    /\ change_cols = << >>

\* an empty dict
EmptyDict == [k \in {} |-> "None"]

\* the default of batch_inspect_urls' max_workers parameter
DEFAULT_MAX_WORKERS == 5

\* format_inspection_results not called
FmtIdle ==
    /\ fmt_payload = EmptyDict
    /\ fmt_pc = "idle"
    /\ fmt_result = EmptyDict

\* Python's None
None == "None"

\* prepare_export_data not called
ExportIdle ==
    /\ exp_df = NoTable
    /\ exp_summary = NoSummary
    /\ exp_pc = "idle"
    /\ export_data = EmptyDict

\* batch_fetch_urls not called
BatchIdle ==
    /\ bf_urls = << >>
    /\ bf_pc = "idle"
    /\ bf_log = << >>
    /\ bf_all_data = << >>
    /\ bf_result = << >>

\* the session as init_session_state leaves it, no URLManager call made
StoreIdle ==
    /\ saved_url_lists = [present |-> TRUE, lists |-> EmptyDict]
    /\ store_call = [fn |-> "none", name |-> "", urls |-> << >>]
    /\ store_ret = [none |-> TRUE]

\* the session of a user who is logged in
LoggedInSession == credentials = "credentials"

\* no call of a single function is under way, in a logged-in session
AuxIdle == FmtIdle /\ ExportIdle /\ BatchIdle /\ StoreIdle /\ LoggedInSession

\* batch_inspect_urls not called yet
InspectIdle ==
    /\ insp_urls = << >>
    /\ max_workers = DEFAULT_MAX_WORKERS
    /\ inspect_outcome = << >>
    /\ insp_pc = "idle"
    /\ futures = << >>
    /\ results = EmptyDict
    /\ calls = 0
    /\ yielded = << >>

InitPlanner ==
    /\ today \in PlannerTodays
    /\ PlannerIdle
    /\ MainIdle
    /\ HeatIdle
    /\ InspectIdle
    /\ AuxIdle

CallGetDateRanges ==
    \E days \in DayInputs, n \in CountInputs :
        /\ plan_call' = [fn |-> "get_date_ranges", period |-> "",
                         days |-> days, n |-> n]
        /\ plan' = get_date_ranges(today, days, n)
        /\ plan_status' = "returned"
        /\ UNCHANGED << today, aux_vars, main_vars, heat_vars, insp_vars >>

CallCalculateDateRanges ==
    \E period \in DOMAIN PERIOD_OPTIONS, n \in CountInputs :
        /\ plan_call' = [fn |-> "calculate_date_ranges", period |-> period,
                         days |-> PERIOD_OPTIONS[period], n |-> n]
        /\ plan' = calculate_date_ranges(today, period, n)
        /\ plan_status' = "returned"
        /\ UNCHANGED << today, aux_vars, main_vars, heat_vars, insp_vars >>

NextPlanner == CallGetDateRanges \/ CallCalculateDateRanges

SpecPlanner == InitPlanner /\ [][NextPlanner]_vars

----------------------------------------------------------------------------
(* The analytics fetch: gsc_api.py GSCApi.fetch_search_analytics *)

\* round(n / d) to the nearest integer, ties to the even one (numpy's round)
RoundHalfEven(n, d) ==
    LET q == n \div d
        r == n - (q * d)
    IN  IF 2 * r < d THEN q
        ELSE IF 2 * r > d THEN q + 1
        ELSE IF q % 2 = 0 THEN q ELSE q + 1

\* the URLs the user can load, in the order pandas sorts them
Urls == {1, 2}

\* rows the remote API can answer with: clicks and impressions are whole
\* numbers, ctr is a fraction in units of 1/10000, position is in hundredths
RawSamples ==
    { [clicks |-> 150, impressions |-> 1000, ctr |-> 1500, position |-> 347],
      [clicks |-> 100, impressions |-> 3000, ctr |-> 333, position |-> 1204] }

\* the responses to a query on dimension page filtered to page equals url:
\* no rows, or the one row of that page
Responses(url) ==
    { << >> } \cup
    { << [keys |-> << url >>, clicks |-> s.clicks, impressions |-> s.impressions,
          ctr |-> s.ctr, position |-> s.position] >> : s \in RawSamples }

\* the DataFrame fetch_search_analytics builds from response['rows'] for
\* dimensions = ['page']; the empty frame is << >>.  position is rounded to
\* one decimal and ctr becomes a percentage with one decimal, both in tenths
fetch_search_analytics(rows) ==
    [i \in 1 .. Len(rows) |->
        [page |-> rows[i].keys[1],
         clicks |-> rows[i].clicks,
         impressions |-> rows[i].impressions,
         position |-> RoundHalfEven(rows[i].position, 10),
         ctr |-> RoundHalfEven(rows[i].ctr, 10)]]

----------------------------------------------------------------------------
(* The merge of main: pd.concat and groupby('page').first() *)

\* a missing value of the wide table
NaN == [nan |-> TRUE]

\* the metric values of one row of a frame
Metrics(r) == [clicks |-> r.clicks, impressions |-> r.impressions,
               ctr |-> r.ctr, position |-> r.position]

\* a concat that keeps the rows of the first frame only
Concat_first_frame(frames) ==
    IF frames = << >> THEN << >>
    ELSE [i \in 1 .. Len(frames[1].rows) |->
             [page |-> frames[1].rows[i].page, period |-> frames[1].period,
              cell |-> Metrics(frames[1].rows[i])]]

\* pd.concat(all_data, ignore_index=True): the rows of the frames in order,
\* each carrying its frame's period label in its column names
RECURSIVE Concat(_)
Concat(frames) ==
    IF frames = << >> THEN << >>
    ELSE LET f == Head(frames)
         IN  [i \in 1 .. Len(f.rows) |->
                 [page |-> f.rows[i].page, period |-> f.period,
                  cell |-> Metrics(f.rows[i])]]
             \o Concat(Tail(frames))

\* the k-th smallest element of a set of numbers
KthSmallest(S, k) == CHOOSE x \in S : Cardinality({y \in S : y < x}) = k - 1

\* a reduction that takes the last row of the page and period
FirstCell_last(long, pg, p) ==
    LET idx == {i \in DOMAIN long : long[i].page = pg /\ long[i].period = p}
    IN  IF idx = {} THEN NaN ELSE long[KthSmallest(idx, Cardinality(idx))].cell

\* GroupBy.first() for one page and one period's columns: the values of the
\* first row of that page carrying that period, NaN when there is none
FirstCell(long, pg, p) ==
    LET idx == {i \in DOMAIN long : long[i].page = pg /\ long[i].period = p}
    IN  IF idx = {} THEN NaN ELSE long[KthSmallest(idx, 1)].cell

\* groupby('page').first() keeping only the pages present in every period
GroupByFirst_dropna(long) ==
    LET cols == {long[i].period : i \in DOMAIN long}
        pages == {pg \in {long[i].page : i \in DOMAIN long} :
                     \A p \in cols : \E i \in DOMAIN long :
                         long[i].page = pg /\ long[i].period = p}
        first(pg, p) == FirstCell(long, pg, p)
    IN  [cols |-> cols,
         rows |-> [k \in 1 .. Cardinality(pages) |->
                      LET pg == KthSmallest(pages, k)
                      IN  [page |-> pg,
                           cells |-> [p \in cols |-> first(pg, p)]]]]

\* groupby('page').first().reset_index(): one row per page, sorted by page;
\* each period's columns hold the first row of that page and period, or NaN
GroupByFirst(long) ==
    LET cols == {long[i].period : i \in DOMAIN long}
        pages == {long[i].page : i \in DOMAIN long}
        first(pg, p) == FirstCell(long, pg, p)
    IN  [cols |-> cols,
         rows |-> [k \in 1 .. Cardinality(pages) |->
                      LET pg == KthSmallest(pages, k)
                      IN  [page |-> pg,
                           cells |-> [p \in cols |-> first(pg, p)]]]]

----------------------------------------------------------------------------
(* main: the date-range section and the data-analysis section *)

\* the options of the "Select Period" selectbox
DATE_RANGE_OPTIONS == {"30", "60", "90", "180", "360", "YoY"}

\* the options the model selects
RangeChoices == {"30", "360", "YoY"}

\* int(st.session_state.date_range)
ParseInt(s) ==
    CASE s = "30" -> 30
      [] s = "60" -> 60
      [] s = "90" -> 90
      [] s = "180" -> 180
      [] s = "360" -> 360

\* max_value of the "Number of periods to compare" input
MAX_COMPARISON_PERIODS == 4

\* the date_ranges main builds on the day t
main_date_ranges(t, dr, periods) ==
    IF dr = "YoY"
    THEN << << SubRelativeDelta(t, 1, 1), t - 1 >>,
            << SubRelativeDelta(t, 2, 1), SubRelativeDelta(t, 1, 1) >> >>
    ELSE get_date_ranges(t, ParseInt(dr), periods)

MainTodays == FirstToday .. (FirstToday + MainTodaySpan)

ComparisonChoices == 1 .. Min(MaxCompare, MAX_COMPARISON_PERIODS)

\* the non-empty URL lists a file, the text area or a saved list can load
UrlInputs ==
    UNION { [1 .. n -> Urls] : n \in 1 .. MaxUrls }

Init ==
    /\ today \in MainTodays
    /\ PlannerIdle
    /\ MainIdle
    /\ HeatIdle
    /\ InspectIdle
    /\ AuxIdle

\* a data-analysis section that runs whatever the URL list is
HasUrls_always(urls) == TRUE

\* the condition of the data-analysis section: session_state has a
\* current_urls list and it is not empty
HasUrls(urls) == urls # << >>

\* A run of the script from its top to the start of the fetch loop, for a
\* logged-in session whose property listing succeeds.  The widgets deliver
\* the user's choices; a newly loaded URL list replaces current_urls only
\* when it is non-empty.  Without URLs the run ends with the "load URLs" note.
\* a run that goes on with whatever the session holds as credentials
LoggedIn_always(c) == TRUE

\* st.session_state.credentials is not None: main goes on to build the API
\* client (app.py line 246)
LoggedIn(c) == c # None

RunMain ==
    /\ pc = "idle"
    /\ LoggedIn(credentials)
    /\ \E dr \in RangeChoices, ce \in BOOLEAN, cp \in ComparisonChoices :
        /\ date_range' = dr
        /\ comparison_enabled' = ce
        /\ comparison_periods' = IF ce THEN cp ELSE comparison_periods
        /\ date_ranges' = main_date_ranges(today, dr,
                                           IF ce THEN cp ELSE 1)
    /\ \E urls \in UrlInputs \cup {current_urls} :
        /\ current_urls' = urls
        /\ all_data' = << >>
        /\ combined_df' = NoTable
        /\ fetch_log' = << >>
        /\ summary' = NoSummary
        /\ arith_on_text' = FALSE
        /\ IF HasUrls(urls)
           THEN /\ pc' = "fetch"
                /\ url_i' = 1
                /\ win_i' = 1
                /\ message' = "none"
           ELSE /\ pc' = "done"
                /\ url_i' = 0
                /\ win_i' = 0
                /\ message' = "load_urls"
        /\ UNCHANGED << today, aux_vars, planner_vars, heat_vars, insp_vars >>

\* The script run is over (it returned, or it was stopped for a rerun): its
\* local variables are gone, st.session_state stays.
EndRun ==
    /\ pc # "idle"
    /\ pc' = "idle"
    /\ date_ranges' = << >>
    /\ url_i' = 0
    /\ win_i' = 0
    /\ all_data' = << >>
    /\ combined_df' = NoTable
    /\ message' = "none"
    /\ fetch_log' = << >>
    /\ summary' = NoSummary
    /\ arith_on_text' = FALSE
    /\ UNCHANGED << today, aux_vars, planner_vars, heat_vars, insp_vars, date_range,
                    comparison_enabled, comparison_periods, current_urls >>

LastPair == url_i = Len(current_urls) /\ win_i = Len(date_ranges)

\* One iteration of the loop over (url, window): the fetch returns a frame.
\* After the last pair the code below the loop runs: the no-data return, or
\* the merge, after which the run stands at pc = "merged" (app.py line 386).
FetchReturns ==
    /\ pc = "fetch"
    /\ \E rows \in Responses(current_urls[url_i]) :
        LET df == fetch_search_analytics(rows)
            collected == IF df # << >>
                         THEN Append(all_data, [period |-> win_i, rows |-> df])
                         ELSE all_data
        IN  /\ fetch_log' = Append(fetch_log,
                                   [url |-> current_urls[url_i],
                                    window |-> win_i,
                                    raised |-> FALSE, rows |-> df])
            /\ all_data' = collected
            /\ IF LastPair
               THEN /\ UNCHANGED << url_i, win_i >>
                    /\ IF collected = << >>
                       THEN /\ message' = "no_data"
                            /\ pc' = "done"
                            /\ UNCHANGED combined_df
                       ELSE /\ combined_df' = GroupByFirst(Concat(collected))
                            /\ pc' = "merged"
                            /\ UNCHANGED message
               ELSE /\ IF win_i < Len(date_ranges)
                       THEN /\ win_i' = win_i + 1
                            /\ UNCHANGED url_i
                       ELSE /\ win_i' = 1
                            /\ url_i' = url_i + 1
                    /\ UNCHANGED << pc, message, combined_df >>
    /\ UNCHANGED << today, aux_vars, planner_vars, heat_vars, insp_vars, date_range,
                    comparison_enabled, comparison_periods, current_urls,
                    date_ranges, summary, arith_on_text >>

\* One iteration of the loop: fetch_search_analytics raises; the exception
\* leaves the loop and reaches the except clause around the whole analysis.
FetchRaises ==
    /\ pc = "fetch"
    /\ fetch_log' = Append(fetch_log,
                           [url |-> current_urls[url_i], window |-> win_i,
                            raised |-> TRUE, rows |-> << >>])
    /\ message' = "error"
    /\ pc' = "done"
    /\ UNCHANGED << today, aux_vars, planner_vars, heat_vars, insp_vars, date_range,
                    comparison_enabled, comparison_periods, current_urls,
                    date_ranges, url_i, win_i, all_data, combined_df,
                    summary, arith_on_text >>

----------------------------------------------------------------------------
(* DataVisualizer.format_metrics and DataVisualizer.create_heatmap *)

\* Values of a formatted frame.  A number n is Num(n); a missing value is
\* NaN; the string str(x) + '%' is Pct(x) for a number x in tenths and
\* NanPct, the text 'nan%', for a missing one; Inf(s) is the float s * inf.
Num(n) == [num |-> n]

Pct(n) == [pct |-> n]

NanPct == [text |-> "nan%"]

Inf(sign) == [inf |-> sign]

IsNum(v) == DOMAIN v = {"num"}

METRICS == {"clicks", "impressions", "ctr", "position"}

\* one value of a wide-table cell, NaN when the cell is missing
CellValue(cell, metric) ==
    IF cell = NaN THEN NaN
    ELSE Num(CASE metric = "clicks" -> cell.clicks
               [] metric = "impressions" -> cell.impressions
               [] metric = "ctr" -> cell.ctr
               [] metric = "position" -> cell.position)

\* df[col].round(1).astype(str) + '%' on one value
FormatCtr(v) == IF IsNum(v) THEN Pct(v.num) ELSE NanPct

\* format_metrics(df): every ctr column becomes text with a trailing '%',
\* every position column is rounded to one decimal (values are in tenths);
\* an empty frame is returned as it is
format_metrics(df) ==
    IF df.rows = << >> THEN df
    ELSE [cols |-> df.cols,
          rows |-> [k \in DOMAIN df.rows |->
              [page |-> df.rows[k].page,
               cells |-> [p \in df.cols |->
                   LET c == df.rows[k].cells[p]
                   IN  [clicks |-> CellValue(c, "clicks"),
                        impressions |-> CellValue(c, "impressions"),
                        ctr |-> FormatCtr(CellValue(c, "ctr")),
                        position |-> CellValue(c, "position")]]]]]

\* s.str.rstrip('%').astype(float) on one value
ParsePct(v) == IF DOMAIN v = {"pct"} THEN Num(v.pct) ELSE NaN

\* the float a - b
FloatSub(a, b) ==
    IF IsNum(a) /\ IsNum(b) THEN Num(a.num - b.num) ELSE NaN

\* the relative change taken against the current value
PctChange_of_current(cur, prev) ==
    IF ~(IsNum(cur) /\ IsNum(prev)) THEN NaN
    ELSE IF cur.num = 0
         THEN (IF prev.num = 0 THEN NaN
               ELSE IF cur.num > prev.num THEN Inf(1) ELSE Inf(-1))
         ELSE Num(RoundHalfEven((cur.num - prev.num) * 1000, cur.num))

\* ((cur - prev) / prev * 100).round(1) in float arithmetic, in tenths: a
\* missing operand gives NaN, a zero divisor gives an infinity, or NaN for 0/0
PctChange(cur, prev) ==
    IF ~(IsNum(cur) /\ IsNum(prev)) THEN NaN
    ELSE IF prev.num = 0
         THEN (IF cur.num = 0 THEN NaN
               ELSE IF cur.num > 0 THEN Inf(1) ELSE Inf(-1))
         ELSE IF prev.num > 0
              THEN Num(RoundHalfEven((cur.num - prev.num) * 1000, prev.num))
              ELSE Num(RoundHalfEven((prev.num - cur.num) * 1000, 0 - prev.num))

\* the value of the column metric_Period_p in row k of a formatted frame
Column(df, metric, p, k) ==
    LET c == df.rows[k].cells[p]
    IN  CASE metric = "clicks" -> c.clicks
          [] metric = "impressions" -> c.impressions
          [] metric = "ctr" -> c.ctr
          [] metric = "position" -> c.position

\* the name "Change <cur> vs <prev>" of a column of the changes frame
ChangeCol(cur, prev) == [current |-> cur, previous |-> prev]

\* a heatmap that compares every period but the first with the first one
create_heatmap_vs_first(df, metric, periods) ==
    IF \E i \in 1 .. Len(periods) : periods[i] \notin df.cols
    THEN [status |-> "raised", changes |-> << >>, columns |-> << >>]
    ELSE [status |-> "ok",
          columns |-> [i \in 1 .. Len(periods) - 1 |->
                          ChangeCol(periods[1], periods[i + 1])],
          changes |-> [i \in 1 .. Len(periods) - 1 |->
              [k \in DOMAIN df.rows |->
                  LET current == Column(df, metric, periods[1], k)
                      previous == Column(df, metric, periods[i + 1], k)
                  IN  IF metric = "ctr"
                      THEN FloatSub(ParsePct(current), ParsePct(previous))
                      ELSE PctChange(current, previous)]]]

\* create_heatmap(df, metric, periods) up to the changes frame.  Reading a
\* column the frame does not have raises KeyError.  changes[i][k] is the
\* column "Change periods[i] vs periods[i+1]" at row k, columns[i] its name.
create_heatmap(df, metric, periods) ==
    IF \E i \in 1 .. Len(periods) - 1 :
           periods[i] \notin df.cols \/ periods[i + 1] \notin df.cols
    THEN [status |-> "raised", changes |-> << >>, columns |-> << >>]
    ELSE [status |-> "ok",
          columns |-> [i \in 1 .. Len(periods) - 1 |->
                          ChangeCol(periods[i], periods[i + 1])],
          changes |-> [i \in 1 .. Len(periods) - 1 |->
              [k \in DOMAIN df.rows |->
                  LET current == Column(df, metric, periods[i], k)
                      previous == Column(df, metric, periods[i + 1], k)
                  IN  IF metric = "ctr"
                      THEN FloatSub(ParsePct(current), ParsePct(previous))
                      ELSE PctChange(current, previous)]]]

----------------------------------------------------------------------------
(* DataVisualizer.create_metric_summary and the analysis steps of main *)

\* the metrics in the order create_metric_summary takes them
SUMMARY_METRICS == << "clicks", "impressions", "position", "ctr" >>

\* the values of the column metric_Period_p, top to bottom
ColumnValues(df, metric, p) ==
    [k \in DOMAIN df.rows |-> Column(df, metric, p, k)]

\* the column holds text, not numbers
IsTextColumn(vals) == \E k \in DOMAIN vals : ~(IsNum(vals[k]) \/ vals[k] = NaN)

\* the numbers of a numeric column, NaN skipped
RECURSIVE Numbers(_)
Numbers(vals) ==
    IF vals = << >> THEN << >>
    ELSE (IF IsNum(Head(vals)) THEN << Head(vals).num >> ELSE << >>)
         \o Numbers(Tail(vals))

RECURSIVE SumSeq(_)
SumSeq(ns) == IF ns = << >> THEN 0 ELSE Head(ns) + SumSeq(Tail(ns))

\* Series.sum(): the sum of the numbers
ColumnSum(vals) == Num(SumSeq(Numbers(vals)))

\* Series.mean(): the sum of the numbers over their count, kept as the
\* fraction sum / n; NaN when there is no number
ColumnMean(vals) ==
    LET ns == Numbers(vals)
    IN  IF ns = << >> THEN NaN ELSE [sum |-> SumSeq(ns), n |-> Len(ns)]

\* Series.min() and Series.max()
ColumnMin(vals) ==
    LET ns == Numbers(vals)
    IN  IF ns = << >> THEN NaN
        ELSE Num(CHOOSE x \in {ns[i] : i \in DOMAIN ns} :
                     \A i \in DOMAIN ns : x <= ns[i])

ColumnMax(vals) ==
    LET ns == Numbers(vals)
    IN  IF ns = << >> THEN NaN
        ELSE Num(CHOOSE x \in {ns[i] : i \in DOMAIN ns} :
                     \A i \in DOMAIN ns : x >= ns[i])

\* the entry create_metric_summary builds for one existing column
ColumnStats(metric, vals) ==
    [total |-> IF metric \in {"clicks", "impressions"}
               THEN ColumnSum(vals) ELSE ColumnMean(vals),
     avg |-> ColumnMean(vals),
     min |-> ColumnMin(vals),
     max |-> ColumnMax(vals)]

\* create_metric_summary takes sum, mean, min or max of a column of strings:
\* some metric's column for one of the periods exists and holds text
SummaryReadsText(df, periods) ==
    \E i \in DOMAIN SUMMARY_METRICS :
        \E p \in {periods[j] : j \in DOMAIN periods} \cap df.cols :
            IsTextColumn(ColumnValues(df, SUMMARY_METRICS[i], p))

\* create_metric_summary(df, periods).  Every metric gets an entry for each
\* period whose column the frame has.  Series.mean() of a column of strings
\* raises TypeError, and every entry takes the mean ('avg'), so a frame with
\* a text column among the columns looked at makes the call raise.
create_metric_summary(df, periods) ==
    LET present == {periods[i] : i \in DOMAIN periods} \cap df.cols
    IN  IF SummaryReadsText(df, periods)
        THEN [status |-> "raised"]
        ELSE [status |-> "ok",
              stats |-> [m \in METRICS |->
                            [p \in present |->
                                ColumnStats(m, ColumnValues(df, m, p))]]]

\* period_labels of main: Period_1 .. Period_N for the N windows of the run
period_labels == [i \in 1 .. Len(date_ranges) |-> i]

\* The code of main below the merge: format_metrics, then
\* create_metric_summary on the formatted frame.  An exception reaches the
\* except clause around the analysis, which reports the error.  After a
\* summary the metric tabs, charts and export follow (pc = "charts").
Analyze ==
    /\ pc = "merged"
    /\ LET formatted == format_metrics(combined_df)
           s == create_metric_summary(formatted, period_labels)
       IN  /\ combined_df' = formatted
           /\ summary' = s
           /\ arith_on_text' = SummaryReadsText(formatted, period_labels)
           /\ IF s.status = "raised"
              THEN /\ message' = "error"
                   /\ pc' = "done"
              ELSE /\ pc' = "charts"
                   /\ UNCHANGED message
    /\ UNCHANGED << today, aux_vars, planner_vars, heat_vars, insp_vars, date_range,
                    comparison_enabled, comparison_periods, current_urls,
                    date_ranges, url_i, win_i, all_data, fetch_log >>

Next == RunMain \/ FetchReturns \/ FetchRaises \/ Analyze \/ EndRun

Spec == Init /\ [][Next]_vars

----------------------------------------------------------------------------
(* Login state of the session across runs of main *)

\* a new session: init_session_state has set credentials to None
InitSession ==
    /\ today = FirstToday
    /\ PlannerIdle
    /\ MainIdle
    /\ HeatIdle
    /\ InspectIdle
    /\ FmtIdle
    /\ ExportIdle
    /\ BatchIdle
    /\ StoreIdle
    /\ credentials = None

\* The OAuth flow the login button starts completes outside main and leaves
\* the credentials in the session; the next run finds them.
SetCredentials ==
    /\ pc = "idle"
    /\ credentials = None
    /\ credentials' = "credentials"
    /\ UNCHANGED << today, planner_vars, main_vars, heat_vars, insp_vars,
                    fmt_vars, export_vars, batch_vars, store_vars >>

\* A run with the Logout button pressed: the sidebar shows the button only
\* to a logged-in session, the handler clears the credentials and
\* st.experimental_rerun() ends the run there.
Logout ==
    /\ pc = "idle"
    /\ credentials # None
    /\ credentials' = None
    /\ UNCHANGED << today, planner_vars, main_vars, heat_vars, insp_vars,
                    fmt_vars, export_vars, batch_vars, store_vars >>

\* A run of a session without credentials: main warns and returns before
\* GSCApi is constructed.
RunMainLoggedOut ==
    /\ pc = "idle"
    /\ ~LoggedIn(credentials)
    /\ pc' = "done"
    /\ message' = "login"
    /\ UNCHANGED << today, planner_vars, heat_vars, insp_vars, aux_vars,
                    date_range, comparison_enabled, comparison_periods,
                    current_urls, date_ranges, url_i, win_i, all_data,
                    combined_df, fetch_log, summary, arith_on_text >>

NextSession ==
    \/ SetCredentials
    \/ Logout
    \/ RunMainLoggedOut
    \/ RunMain
    \/ FetchReturns
    \/ FetchRaises
    \/ Analyze
    \/ EndRun

SpecSession == InitSession /\ [][NextSession]_vars

----------------------------------------------------------------------------
(* Calls of create_heatmap *)

\* the wide-table cells the frames passed to create_heatmap are made of: the
\* rows the fetch delivers, one of them with no clicks
HeatCells ==
    { Metrics(fetch_search_analytics(<< r >>)[1]) :
        r \in { [keys |-> << 1 >>, clicks |-> s.clicks,
                 impressions |-> s.impressions, ctr |-> s.ctr,
                 position |-> s.position] : s \in RawSamples }
              \cup { [keys |-> << 1 >>, clicks |-> 0, impressions |-> 7,
                      ctr |-> 0, position |-> 868] } }

HeatPeriods == 1 .. MaxHeatPeriods

\* the wide table with the cells f[u, p]: a row per URL that has a cell, a
\* group of columns per period that has one
TableOf(f) ==
    LET pages == {u \in Urls : \E p \in HeatPeriods : f[u, p] # NaN}
    IN  [cols |-> {p \in HeatPeriods : \E u \in Urls : f[u, p] # NaN},
         rows |-> [k \in 1 .. Cardinality(pages) |->
                      [page |-> KthSmallest(pages, k),
                       cells |-> [p \in {q \in HeatPeriods :
                                            \E u \in Urls : f[u, q] # NaN} |->
                                     f[KthSmallest(pages, k), p]]]]]

\* the frames main can pass: merged, then formatted
HeatTables ==
    { format_metrics(TableOf(f)) :
        f \in { g \in [Urls \X HeatPeriods -> HeatCells \cup {NaN}] :
                  \E x \in Urls \X HeatPeriods : g[x] # NaN } }

InitHeat ==
    /\ today = FirstToday
    /\ PlannerIdle
    /\ MainIdle
    /\ InspectIdle
    /\ AuxIdle
    /\ heat_df \in HeatTables
    /\ heat_metric = ""
    /\ heat_periods = << >>
    /\ heat_status = "none"
    /\ changes = << >>
    /\ change_cols = << >>

CallCreateHeatmap ==
    /\ heat_status = "none"
    /\ \E metric \in METRICS :
        LET periods == [i \in HeatPeriods |-> i]
            r == create_heatmap(heat_df, metric, periods)
        IN  /\ heat_metric' = metric
            /\ heat_periods' = periods
            /\ heat_status' = r.status
            /\ changes' = r.changes
            /\ change_cols' = r.columns
    /\ UNCHANGED << today, aux_vars, planner_vars, main_vars, insp_vars, heat_df >>

NextHeat == CallCreateHeatmap

SpecHeat == InitHeat /\ [][NextHeat]_vars

----------------------------------------------------------------------------
(* SiteAnalyzer.format_inspection_results and SiteAnalyzer.batch_inspect_urls *)

\* dict.get(k, default)
Get(d, k, default) == IF k \in DOMAIN d THEN d[k] ELSE default

\* a formatter that reads every section with results[...] instead of .get:
\* a missing key then ends in the error marker of the caller
format_inspection_results_strict(response) ==
    IF response = EmptyDict
    THEN ("Coverage" :> EmptyDict) @@ ("Mobile Usability" :> EmptyDict)
         @@ ("Rich Results" :> EmptyDict) @@ ("Performance" :> EmptyDict)
    ELSE IF \/ "inspectionResult" \notin DOMAIN response
            \/ \E n \in {"indexStatusResult", "mobileUsabilityResult",
                         "richResultsResult"} :
                   n \notin DOMAIN response["inspectionResult"]
    THEN [error |-> "KeyError"]
    ELSE LET r == response["inspectionResult"]
         IN  ("Coverage" :> ("Verdict" :> Get(r["indexStatusResult"], "verdict", None)))
             @@ ("Mobile Usability" :>
                    ("Verdict" :> Get(r["mobileUsabilityResult"], "verdict", None)))
             @@ ("Rich Results" :>
                    ("Verdict" :> Get(r["richResultsResult"], "verdict", None)))
             @@ ("Performance" :> Get(r, "performanceResult", EmptyDict))

\* format_inspection_results(results)
format_inspection_results(response) ==
    IF response = EmptyDict
    THEN ("Coverage" :> EmptyDict) @@ ("Mobile Usability" :> EmptyDict)
         @@ ("Rich Results" :> EmptyDict) @@ ("Performance" :> EmptyDict)
    ELSE LET inspection_result == Get(response, "inspectionResult", EmptyDict)
             coverage == Get(inspection_result, "indexStatusResult", EmptyDict)
             mobile == Get(inspection_result, "mobileUsabilityResult", EmptyDict)
             rich_results == Get(inspection_result, "richResultsResult", EmptyDict)
             performance == Get(inspection_result, "performanceResult", EmptyDict)
         IN  ("Coverage" :>
                  (("Verdict" :> Get(coverage, "verdict", None))
                   @@ ("Coverage State" :> Get(coverage, "coverageState", None))
                   @@ ("Crawl Allowed?" :> Get(coverage, "robotsTxtState", None))
                   @@ ("Page Fetch" :> Get(coverage, "pageFetchState", None))
                   @@ ("Indexing Allowed?" :> Get(coverage, "indexingState", None))
                   @@ ("Last Crawl" :> Get(coverage, "lastCrawlTime", None))))
             @@ ("Mobile Usability" :>
                  (("Verdict" :> Get(mobile, "verdict", None))
                   @@ ("Issues" :> Get(mobile, "issues", << >>))))
             @@ ("Rich Results" :>
                  (("Verdict" :> Get(rich_results, "verdict", None))
                   @@ ("Detected Items" :> Get(rich_results, "detectedItems", << >>))))
             @@ ("Performance" :>
                  IF performance # EmptyDict THEN performance ELSE EmptyDict)

\* payloads of the inspection API: an empty one, one with every section, one
\* with the index status only
InspectPayloads ==
    { EmptyDict,
      [inspectionResult |->
          [indexStatusResult |->
              [verdict |-> "PASS", coverageState |-> "Submitted and indexed",
               robotsTxtState |-> "ALLOWED", pageFetchState |-> "SUCCESSFUL",
               indexingState |-> "INDEXING_ALLOWED",
               lastCrawlTime |-> "2024-02-20T08:00:00Z"],
           mobileUsabilityResult |-> [verdict |-> "PASS"],
           richResultsResult |->
              [verdict |-> "PASS", detectedItems |-> << "Breadcrumbs" >>],
           performanceResult |-> [lcp |-> "GOOD"]]],
      [inspectionResult |->
          [indexStatusResult |->
              [verdict |-> "NEUTRAL",
               coverageState |-> "Discovered - currently not indexed"]]] }

\* what GSCApi.inspect_url does for one URL: it returns the API's payload, or
\* it re-raises the exception of the request
InspectOutcomes ==
    { [raised |-> FALSE, response |-> r] : r \in InspectPayloads }
    \cup { [raised |-> TRUE, response |-> "Failed to inspect URL: HttpError 403"] }

\* the sequences over S of length 0 .. n
RECURSIVE SeqsUpTo(_, _)
SeqsUpTo(S, n) ==
    IF n = 0 THEN { << >> }
    ELSE LET shorter == SeqsUpTo(S, n - 1)
         IN  shorter \cup { Append(q, x) : q \in shorter, x \in S }

\* the nested inspect_url(url) of batch_inspect_urls: the formatted payload,
\* or the error marker with str(e) when the inspection raised
inspect_url(url) ==
    IF inspect_outcome[url].raised
    THEN [error |-> inspect_outcome[url].response]
    ELSE format_inspection_results(inspect_outcome[url].response)

\* the futures in the given state
InState(st) == {i \in DOMAIN futures : futures[i].state = st}

InitInspect ==
    /\ today = FirstToday
    /\ PlannerIdle
    /\ MainIdle
    /\ HeatIdle
    /\ AuxIdle
    /\ insp_urls \in SeqsUpTo(Urls, MaxInspectUrls)
    /\ max_workers \in 1 .. MaxWorkers
    /\ inspect_outcome \in [Urls -> InspectOutcomes]
    /\ insp_pc = "called"
    /\ futures = [i \in DOMAIN insp_urls |->
                     [state |-> "unsubmitted", result |-> EmptyDict]]
    /\ results = EmptyDict
    /\ calls = 0
    /\ yielded = << >>

\* The def statement of the nested inspect_url evaluates its annotation
\* '-> Tuple[str, Dict[str, Any]]'.  The module imports List, Dict, Any and
\* Optional from typing, not Tuple.  An interpreter that evaluates
\* annotations at the def (Python before 3.14) raises NameError here, before
\* the executor exists; one that defers them (3.14 on) goes on.
DefRaisesNameError ==
    /\ insp_pc = "called"
    /\ insp_pc' = "raised"
    /\ UNCHANGED << today, aux_vars, planner_vars, main_vars, heat_vars, yielded, insp_urls,
                    max_workers, inspect_outcome, futures, results, calls >>

DefInspectUrl ==
    /\ insp_pc = "called"
    /\ insp_pc' = "running"
    /\ UNCHANGED << today, aux_vars, planner_vars, main_vars, heat_vars, yielded, insp_urls,
                    max_workers, inspect_outcome, futures, results, calls >>

\* a submit that waits until fewer than max_workers submitted calls are
\* unfinished
SubmitReady_when_worker_free ==
    Cardinality(InState("queued") \cup InState("running")) < max_workers

\* when executor.submit goes through: ThreadPoolExecutor puts the work item
\* on an unbounded queue, at any time and whatever the workers are doing
SubmitReady == TRUE

\* executor.submit for the next list entry: the work item is queued; submit
\* does not wait for a free worker
Submit ==
    /\ insp_pc = "running"
    /\ InState("unsubmitted") # {}
    /\ SubmitReady
    /\ LET i == CHOOSE j \in InState("unsubmitted") :
                    \A k \in InState("unsubmitted") : j <= k
       IN  futures' = [futures EXCEPT ![i].state = "queued"]
    /\ UNCHANGED << today, aux_vars, planner_vars, main_vars, heat_vars, yielded, insp_urls,
                    max_workers, inspect_outcome, insp_pc, results, calls >>

\* a worker thread takes the oldest queued work item and enters
\* gsc_api.inspect_url; the pool has at most max_workers threads
WorkerStart ==
    /\ insp_pc = "running"
    /\ InState("queued") # {}
    /\ Cardinality(InState("running")) < max_workers
    /\ LET i == CHOOSE j \in InState("queued") :
                    \A k \in InState("queued") : j <= k
       IN  futures' = [futures EXCEPT ![i].state = "running"]
    /\ calls' = calls + 1
    /\ UNCHANGED << today, aux_vars, planner_vars, main_vars, heat_vars, yielded, insp_urls,
                    max_workers, inspect_outcome, insp_pc, results >>

\* gsc_api.inspect_url returned and the payload was formatted
WorkerReturns ==
    /\ insp_pc = "running"
    /\ \E i \in InState("running") :
        /\ ~inspect_outcome[insp_urls[i]].raised
        /\ futures' = [futures EXCEPT ![i] =
                          [state |-> "done", result |-> inspect_url(insp_urls[i])]]
    /\ UNCHANGED << today, aux_vars, planner_vars, main_vars, heat_vars, yielded, insp_urls,
                    max_workers, inspect_outcome, insp_pc, results, calls >>

\* gsc_api.inspect_url raised and the nested function caught it
WorkerCatches ==
    /\ insp_pc = "running"
    /\ \E i \in InState("running") :
        /\ inspect_outcome[insp_urls[i]].raised
        /\ futures' = [futures EXCEPT ![i] =
                          [state |-> "done", result |-> inspect_url(insp_urls[i])]]
    /\ UNCHANGED << today, aux_vars, planner_vars, main_vars, heat_vars, yielded, insp_urls,
                    max_workers, inspect_outcome, insp_pc, results, calls >>

\* a loop that files the result of the yielded future under the list entry
\* at its place in the order of completion
StoreResult_by_arrival(res, i) ==
    LET url == insp_urls[Len(yielded) + 1]
    IN  [u \in DOMAIN res \cup {url} |->
            IF u = url THEN futures[i].result ELSE res[u]]

\* results[url] = result for the yielded future i: url is the URL the future
\* was submitted for, which is also the URL its result carries
StoreResult(res, i) ==
    LET url == insp_urls[i]
    IN  [u \in DOMAIN res \cup {url} |->
            IF u = url THEN futures[i].result ELSE res[u]]

\* the as_completed loop, entered once every entry is submitted, takes a
\* finished future and stores its result under its URL
Collect ==
    /\ insp_pc = "running"
    /\ InState("unsubmitted") = {}
    /\ \E i \in InState("done") :
        /\ futures' = [futures EXCEPT ![i].state = "collected"]
        /\ results' = StoreResult(results, i)
        /\ yielded' = Append(yielded, i)
    /\ UNCHANGED << today, aux_vars, planner_vars, main_vars, heat_vars, insp_urls,
                    max_workers, inspect_outcome, insp_pc, calls >>

\* every future was yielded: the with block shuts the pool down and the
\* function returns results
Return ==
    /\ insp_pc = "running"
    /\ InState("collected") = DOMAIN futures
    /\ insp_pc' = "returned"
    /\ UNCHANGED << today, aux_vars, planner_vars, main_vars, heat_vars, yielded, insp_urls,
                    max_workers, inspect_outcome, futures, results, calls >>

NextInspect ==
    \/ DefRaisesNameError
    \/ DefInspectUrl
    \/ Submit
    \/ WorkerStart
    \/ WorkerReturns
    \/ WorkerCatches
    \/ Collect
    \/ Return

SpecInspect == InitInspect /\ [][NextInspect]_vars

----------------------------------------------------------------------------
(* Calls of format_inspection_results *)

\* the sections of inspectionResult that format_inspection_results reads
SectionNames == {"indexStatusResult", "mobileUsabilityResult",
                 "richResultsResult", "performanceResult"}

\* a section as the API delivers it: with no field, with its verdict only,
\* or with all the fields that are read
SectionValue(name, how) ==
    IF how = "empty" THEN EmptyDict
    ELSE IF name = "performanceResult" THEN [lcp |-> "GOOD"]
    ELSE IF how = "verdict" THEN [verdict |-> "PASS"]
    ELSE CASE name = "indexStatusResult" ->
                  [verdict |-> "PASS", coverageState |-> "Submitted and indexed",
                   robotsTxtState |-> "ALLOWED", pageFetchState |-> "SUCCESSFUL",
                   indexingState |-> "INDEXING_ALLOWED",
                   lastCrawlTime |-> "2024-02-20T08:00:00Z"]
           [] name = "mobileUsabilityResult" ->
                  [verdict |-> "FAIL", issues |-> << "TAP_TARGETS_TOO_CLOSE" >>]
           [] name = "richResultsResult" ->
                  [verdict |-> "PASS", detectedItems |-> << "Breadcrumbs" >>]

\* an inspectionResult with the sections c does not mark absent
InspectionResultOf(c) ==
    [name \in {n \in SectionNames : c[n] # "absent"} |-> SectionValue(name, c[name])]

\* the payloads format_inspection_results is called with: the empty payload,
\* a payload without inspectionResult, and inspectionResults with every
\* choice of absent, empty, verdict-only and full sections
FormatPayloads ==
    { EmptyDict, [kind |-> "inspection"] } \cup
    { [inspectionResult |-> InspectionResultOf(c)] :
        c \in { d \in [SectionNames -> {"absent", "empty", "verdict", "full"}] :
                  d["performanceResult"] \in {"absent", "full"} } }

InitFormat ==
    /\ today = FirstToday
    /\ PlannerIdle
    /\ MainIdle
    /\ HeatIdle
    /\ InspectIdle
    /\ ExportIdle
    /\ BatchIdle
    /\ StoreIdle
    /\ LoggedInSession
    /\ fmt_payload \in FormatPayloads
    /\ fmt_pc = "called"
    /\ fmt_result = EmptyDict

CallFormat ==
    /\ fmt_pc = "called"
    /\ fmt_result' = format_inspection_results(fmt_payload)
    /\ fmt_pc' = "returned"
    /\ UNCHANGED << today, planner_vars, main_vars, heat_vars, insp_vars,
                    export_vars, batch_vars, store_vars, credentials,
                    fmt_payload >>

NextFormat == CallFormat

SpecFormat == InitFormat /\ [][NextFormat]_vars

----------------------------------------------------------------------------
(* DataVisualizer.prepare_export_data *)

\* the rows made from one metric's entry of the summary: one per period, in
\* the order the periods were entered (the order of the period labels)
PeriodRows(metric, period_data) ==
    [j \in 1 .. Cardinality(DOMAIN period_data) |->
        LET period == KthSmallest(DOMAIN period_data, j)
            stats == period_data[period]
        IN  [metric |-> metric, period |-> period, total |-> stats.total,
             avg |-> stats.avg, min |-> stats.min, max |-> stats.max]]

\* summary_data: the rows of the metrics from the i-th on, in the order
\* create_metric_summary entered the metrics
RECURSIVE SummaryRows(_, _)
SummaryRows(stats, i) ==
    IF i > Len(SUMMARY_METRICS) THEN << >>
    ELSE (IF SUMMARY_METRICS[i] \in DOMAIN stats
          THEN PeriodRows(SUMMARY_METRICS[i], stats[SUMMARY_METRICS[i]])
          ELSE << >>)
         \o SummaryRows(stats, i + 1)

\* an export whose summary table has the rows of the first metric only
prepare_export_data_first_metric(df, stats, periods) ==
    [url_metrics |-> df,
     summary |-> PeriodRows(SUMMARY_METRICS[1], stats[SUMMARY_METRICS[1]])]

\* prepare_export_data(df, summary, periods): a copy of df under
\* 'url_metrics' and the flattened summary under 'summary'; periods is not
\* used
prepare_export_data(df, stats, periods) ==
    [url_metrics |-> df, summary |-> SummaryRows(stats, 1)]

\* the statistics entries the summaries passed are made of
StatsSamples ==
    { [total |-> Num(250), avg |-> [sum |-> 250, n |-> 2],
       min |-> Num(100), max |-> Num(150)],
      [total |-> [sum |-> 155, n |-> 2], avg |-> [sum |-> 155, n |-> 2],
       min |-> Num(35), max |-> Num(120)] }

ExportPeriods == 1 .. MaxExportPeriods

\* the summaries passed: for every metric an entry for each period of a set
\* of periods, as create_metric_summary builds them
ExportSummaries ==
    UNION { [METRICS -> [P -> StatsSamples]] : P \in SUBSET ExportPeriods }

\* the tables passed: the formatted tables with Period_1 columns only
ExportTables == { t \in HeatTables : t.cols = {1} }

InitExport ==
    /\ today = FirstToday
    /\ PlannerIdle
    /\ MainIdle
    /\ HeatIdle
    /\ InspectIdle
    /\ FmtIdle
    /\ BatchIdle
    /\ StoreIdle
    /\ LoggedInSession
    /\ exp_df \in ExportTables
    /\ exp_summary \in ExportSummaries
    /\ exp_pc = "called"
    /\ export_data = EmptyDict

CallPrepareExport ==
    /\ exp_pc = "called"
    /\ export_data' = prepare_export_data(exp_df, exp_summary,
                                          [i \in ExportPeriods |-> i])
    /\ exp_pc' = "returned"
    /\ UNCHANGED << today, planner_vars, main_vars, heat_vars, insp_vars,
                    fmt_vars, batch_vars, store_vars, credentials,
                    exp_df, exp_summary >>

NextExport == CallPrepareExport

SpecExport == InitExport /\ [][NextExport]_vars

----------------------------------------------------------------------------
(* GSCApi.batch_fetch_urls *)

\* a concat that keeps the rows of the last frame only
FlatConcat_last_frame(frames) ==
    IF frames = << >> THEN << >> ELSE frames[Len(frames)]

\* pd.concat(all_data, ignore_index=True) of frames with the same columns:
\* the rows of the frames, in the order of the list
RECURSIVE FlatConcat(_)
FlatConcat(frames) ==
    IF frames = << >> THEN << >> ELSE Head(frames) \o FlatConcat(Tail(frames))

\* what batch_fetch_urls returns for its all_data: the empty frame, or the
\* concatenation
BatchResult(frames) ==
    IF frames = << >> THEN << >> ELSE FlatConcat(frames)

InitBatch ==
    /\ today = FirstToday
    /\ PlannerIdle
    /\ MainIdle
    /\ HeatIdle
    /\ InspectIdle
    /\ FmtIdle
    /\ ExportIdle
    /\ StoreIdle
    /\ LoggedInSession
    /\ bf_urls \in SeqsUpTo(Urls, MaxBatchUrls)
    /\ bf_pc = "loop"
    /\ bf_log = << >>
    /\ bf_all_data = << >>
    /\ bf_result = << >>

\* the list is empty: the loop body never runs and the empty frame is returned
BatchEmptyList ==
    /\ bf_pc = "loop"
    /\ bf_urls = << >>
    /\ bf_result' = BatchResult(bf_all_data)
    /\ bf_pc' = "returned"
    /\ UNCHANGED << today, planner_vars, main_vars, heat_vars, insp_vars,
                    fmt_vars, export_vars, store_vars, credentials,
                    bf_urls, bf_log, bf_all_data >>

\* the end of one pass of the loop, all_data being all: after the last URL
\* the function returns
BatchLoopEnd(all) ==
    IF Len(bf_log) + 1 = Len(bf_urls)
    THEN /\ bf_result' = BatchResult(all)
         /\ bf_pc' = "returned"
    ELSE UNCHANGED << bf_result, bf_pc >>

\* fetch_search_analytics for the next URL returns a frame; a frame with
\* rows is appended to all_data
BatchFetchReturns ==
    /\ bf_pc = "loop"
    /\ Len(bf_log) < Len(bf_urls)
    /\ LET url == bf_urls[Len(bf_log) + 1]
       IN  \E rows \in Responses(url) :
               LET df == fetch_search_analytics(rows)
                   all == IF df # << >> THEN Append(bf_all_data, df)
                          ELSE bf_all_data
               IN  /\ bf_log' = Append(bf_log,
                                       [url |-> url, raised |-> FALSE, rows |-> df])
                   /\ bf_all_data' = all
                   /\ BatchLoopEnd(all)
    /\ UNCHANGED << today, planner_vars, main_vars, heat_vars, insp_vars,
                    fmt_vars, export_vars, store_vars, credentials, bf_urls >>

\* fetch_search_analytics for the next URL raises: the except clause prints
\* the error and the loop goes on
BatchFetchRaises ==
    /\ bf_pc = "loop"
    /\ Len(bf_log) < Len(bf_urls)
    /\ bf_log' = Append(bf_log, [url |-> bf_urls[Len(bf_log) + 1],
                                 raised |-> TRUE, rows |-> << >>])
    /\ BatchLoopEnd(bf_all_data)
    /\ UNCHANGED << today, planner_vars, main_vars, heat_vars, insp_vars,
                    fmt_vars, export_vars, store_vars, credentials,
                    bf_urls, bf_all_data >>

NextBatch == BatchEmptyList \/ BatchFetchReturns \/ BatchFetchRaises

SpecBatch == InitBatch /\ [][NextBatch]_vars

----------------------------------------------------------------------------
(* URLManager: save_url_list, get_url_list, delete_url_list *)

\* return values: None, a bool, a list
NoneRet == [none |-> TRUE]

BoolRet(b) == [bool |-> b]

ListRet(urls) == [list |-> urls]

\* a save that starts a new dict for every list it stores
save_url_list_fresh_dict(store, name, urls) ==
    IF name = "" THEN [ret |-> BoolRet(FALSE), store |-> store]
    ELSE IF urls = << >> THEN [ret |-> BoolRet(FALSE), store |-> store]
    ELSE [ret |-> BoolRet(TRUE),
          store |-> [present |-> TRUE, lists |-> (name :> urls)]]

\* save_url_list(name, urls) on the session's store: what it returns and
\* the store it leaves
save_url_list(store, name, urls) ==
    IF name = "" THEN [ret |-> BoolRet(FALSE), store |-> store]
    ELSE IF urls = << >> THEN [ret |-> BoolRet(FALSE), store |-> store]
    ELSE LET lists == IF store.present THEN store.lists ELSE EmptyDict
         IN  [ret |-> BoolRet(TRUE),
              store |-> [present |-> TRUE, lists |-> (name :> urls) @@ lists]]

\* get_url_list(name)
get_url_list(store, name) ==
    IF ~store.present THEN NoneRet
    ELSE IF name \in DOMAIN store.lists THEN ListRet(store.lists[name])
    ELSE NoneRet

\* delete_url_list(name)
delete_url_list(store, name) ==
    IF ~store.present THEN [ret |-> BoolRet(FALSE), store |-> store]
    ELSE IF name \in DOMAIN store.lists
    THEN [ret |-> BoolRet(TRUE),
          store |-> [present |-> TRUE,
                     lists |-> [n \in DOMAIN store.lists \ {name} |->
                                   store.lists[n]]]]
    ELSE [ret |-> BoolRet(FALSE), store |-> store]

\* the names the calls are made with; the text input can be left empty
StoreNames == {"", "a", "b"}

\* the lists save_url_list is called with
StoreLists == SeqsUpTo(Urls, MaxStoreUrls)

InitStore ==
    /\ today = FirstToday
    /\ PlannerIdle
    /\ MainIdle
    /\ HeatIdle
    /\ InspectIdle
    /\ FmtIdle
    /\ ExportIdle
    /\ BatchIdle
    /\ LoggedInSession
    /\ StoreIdle

CallSave ==
    /\ \E name \in StoreNames, urls \in StoreLists :
        LET r == save_url_list(saved_url_lists, name, urls)
        IN  /\ store_call' = [fn |-> "save", name |-> name, urls |-> urls]
            /\ store_ret' = r.ret
            /\ saved_url_lists' = r.store
    /\ UNCHANGED << today, planner_vars, main_vars, heat_vars, insp_vars,
                    fmt_vars, export_vars, batch_vars, credentials >>

CallGet ==
    /\ \E name \in StoreNames :
        /\ store_call' = [fn |-> "get", name |-> name, urls |-> << >>]
        /\ store_ret' = get_url_list(saved_url_lists, name)
    /\ UNCHANGED << today, planner_vars, main_vars, heat_vars, insp_vars,
                    fmt_vars, export_vars, batch_vars, credentials,
                    saved_url_lists >>

CallDelete ==
    /\ \E name \in StoreNames :
        LET r == delete_url_list(saved_url_lists, name)
        IN  /\ store_call' = [fn |-> "delete", name |-> name, urls |-> << >>]
            /\ store_ret' = r.ret
            /\ saved_url_lists' = r.store
    /\ UNCHANGED << today, planner_vars, main_vars, heat_vars, insp_vars,
                    fmt_vars, export_vars, batch_vars, credentials >>

NextStore == CallSave \/ CallGet \/ CallDelete

SpecStore == InitStore /\ [][NextStore]_vars

----------------------------------------------------------------------------
(* Claims about the planner *)

WindowDays(w) == w[2] - w[1] + 1

NumericCall ==
    /\ plan_call.fn \in {"get_date_ranges", "calculate_date_ranges"}
    /\ plan_call.period # "Year over Year"

\* C1: a numeric plan for D days and N >= 1 periods has exactly N windows of
\* exactly D inclusive days each, window 0 ends yesterday, and every later
\* window ends the day before the previous window starts.
C1_NumericPlanShape ==
    (NumericCall /\ plan_call.n >= 1) =>
        /\ Len(plan) = plan_call.n
        /\ \A i \in 1 .. Len(plan) : WindowDays(plan[i]) = plan_call.days
        /\ plan[1][2] = today - 1
        /\ \A i \in 1 .. Len(plan) : plan[i][2] < today
        /\ \A i \in 2 .. Len(plan) : plan[i][2] = plan[i - 1][1] - 1

C1_Witness ==
    /\ plan_call.fn = "get_date_ranges"
    /\ plan_call.n = 3
    /\ plan_call.days = 30
    /\ Len(plan) = 3
    /\ plan[3][2] = plan[2][1] - 1

\* C3: in every plan the planner returns, numeric or Year-over-Year, index 0
\* is the most recent window and every later index is strictly earlier.
C3_MostRecentFirst ==
    (plan_status = "returned") =>
        \A i \in 1 .. Len(plan) : \A j \in 1 .. Len(plan) :
            (i < j) => (plan[j][1] < plan[i][1] /\ plan[j][2] < plan[i][2])

\* C5: a planner call with a period count below 1 is rejected; it never
\* returns a window list.
C5_RejectsCountBelowOne ==
    (NumericCall /\ plan_call.n < 1) => (plan_status = "raised")

----------------------------------------------------------------------------
(* Claims about the windows main fetches *)

\* C2: every Year-over-Year plan has exactly 2 windows of exactly 30
\* inclusive days: [yesterday-29, yesterday] and the same range 365 days
\* earlier.  Stated here of the date_ranges main builds for 'YoY'.
C2_YoYTwoThirtyDayWindows ==
    (pc # "idle" /\ date_range = "YoY") =>
        /\ Len(date_ranges) = 2
        /\ \A i \in 1 .. Len(date_ranges) : WindowDays(date_ranges[i]) = 30
        /\ date_ranges[1] = << today - 30, today - 1 >>
        /\ date_ranges[2] = << today - 30 - 365, today - 1 - 365 >>

\* C4: in every list of windows main fetches with, each window has
\* start <= end and no calendar date lies in two windows of the list.
C4_WindowsDisjoint ==
    (fetch_log # << >>) =>
        /\ \A i \in 1 .. Len(date_ranges) :
               date_ranges[i][1] <= date_ranges[i][2]
        /\ \A i \in 1 .. Len(date_ranges) : \A j \in 1 .. Len(date_ranges) :
               (i # j) =>
                   \/ date_ranges[i][2] < date_ranges[j][1]
                   \/ date_ranges[j][2] < date_ranges[i][1]

----------------------------------------------------------------------------
(* Claims about the fetch-and-merge loop *)

\* some fetch of this run for (u, w) returned rows
GotRows(u, w) ==
    \E k \in DOMAIN fetch_log :
        /\ fetch_log[k].url = u
        /\ fetch_log[k].window = w
        /\ fetch_log[k].rows # << >>

\* the first row this run fetched for (u, w)
FirstFetched(u, w) ==
    LET ks == {k \in DOMAIN fetch_log :
                  /\ fetch_log[k].url = u
                  /\ fetch_log[k].window = w
                  /\ fetch_log[k].rows # << >>}
    IN  fetch_log[KthSmallest(ks, 1)].rows[1]

RowsOf(df, u) == {k \in DOMAIN df.rows : df.rows[k].page = u}

\* C6: if the fetches for (X, window 2) return no rows and a fetch for
\* (X, window 1) returns a row, the merged table has exactly one row for X,
\* its Period_1 columns hold the fetched values and its Period_2 columns are
\* missing (no value, not zero).
C6_MissingWindowKeepsUrl ==
    (pc = "merged" /\ Len(date_ranges) >= 2) =>
        \A u \in Urls :
            (GotRows(u, 1) /\ ~GotRows(u, 2)) =>
                /\ Cardinality(RowsOf(combined_df, u)) = 1
                /\ 1 \in combined_df.cols
                /\ \A k \in RowsOf(combined_df, u) :
                       /\ combined_df.rows[k].cells[1]
                              = Metrics(FirstFetched(u, 1))
                       /\ (2 \in combined_df.cols) =>
                              combined_df.rows[k].cells[2] = NaN

C6_Witness ==
    /\ pc = "merged"
    /\ Len(date_ranges) = 2
    /\ GotRows(1, 1)
    /\ ~GotRows(1, 2)
    /\ 2 \in combined_df.cols
    /\ Len(combined_df.rows) = 2
    /\ combined_df.rows[1].cells[2] = NaN

\* C7: a fetch that raises for one pair is treated as no data for that pair
\* only: the run still fetches every pair and ends with the no-data return
\* or the merge, never with the error report.
C7_FailingPairIsolated ==
    (pc \in {"merged", "done"} /\ \E k \in DOMAIN fetch_log : fetch_log[k].raised) =>
        /\ Len(fetch_log) = Len(current_urls) * Len(date_ranges)
        /\ message # "error"

\* C8: when every pair of a run yields no rows, because the fetch returned
\* none or because it failed, the run produces no table and reports the
\* no-data condition, not the error condition.
C8_NoDataIsDistinct ==
    (/\ pc = "done"
     /\ fetch_log # << >>
     /\ \A k \in DOMAIN fetch_log : fetch_log[k].rows = << >>) =>
        /\ message = "no_data"
        /\ combined_df = NoTable

----------------------------------------------------------------------------
(* Claims about the change computation *)

\* the number a formatted value stands for; only used where Present holds
NumberOf(v) == IF DOMAIN v = {"pct"} THEN v.pct ELSE v.num

Present(v) == DOMAIN v = {"pct"} \/ DOMAIN v = {"num"}

\* r, in tenths, is (cur - prev) / prev * 100 rounded to one decimal
IsRelativeChange(r, cur, prev) ==
    2 * Abs((r * prev) - ((cur - prev) * 1000)) <= Abs(prev)

\* the change reported for pair i and row k is the relative change of the
\* two values of heat_metric
RelativeChangeReported(i, k) ==
    LET cur == Column(heat_df, heat_metric, heat_periods[i], k)
        prev == Column(heat_df, heat_metric, heat_periods[i + 1], k)
    IN  (Present(cur) /\ Present(prev) /\ NumberOf(prev) # 0) =>
            /\ IsNum(changes[i][k])
            /\ IsRelativeChange(changes[i][k].num, NumberOf(cur), NumberOf(prev))
            /\ (heat_metric = "clicks" /\ NumberOf(cur) = 150
                    /\ NumberOf(prev) = 100) => changes[i][k].num = 500

\* C9 as stated: for every metric, ctr included, every URL and every
\* adjacent pair with both values present and a non-zero previous value, the
\* reported change is (v_i - v_{i+1}) / v_{i+1} * 100 rounded to one decimal.
C9_RelativeChangeEveryMetric ==
    (heat_status = "ok") =>
        \A i \in DOMAIN changes : \A k \in DOMAIN changes[i] :
            RelativeChangeReported(i, k)

\* C9 as amended: for clicks, impressions and position the reported change
\* is (v_i - v_{i+1}) / v_{i+1} * 100 rounded to one decimal (clicks 150
\* against 100 gives 50.0); for ctr it is the difference v_i - v_{i+1} of the
\* two percentages.
C9_ChangePerMetric ==
    (heat_status = "ok") =>
        \A i \in DOMAIN changes : \A k \in DOMAIN changes[i] :
            IF heat_metric = "ctr"
            THEN LET cur == Column(heat_df, "ctr", heat_periods[i], k)
                     prev == Column(heat_df, "ctr", heat_periods[i + 1], k)
                 IN  (Present(cur) /\ Present(prev)) =>
                         /\ IsNum(changes[i][k])
                         /\ changes[i][k].num + NumberOf(prev) = NumberOf(cur)
            ELSE RelativeChangeReported(i, k)

C9_Witness ==
    /\ heat_status = "ok"
    /\ heat_metric = "clicks"
    /\ Len(heat_df.rows) = 2
    /\ heat_df.rows[1].cells[1].clicks = Num(150)
    /\ heat_df.rows[1].cells[2].clicks = Num(100)
    /\ changes[1][1] = Num(500)
    /\ heat_df.rows[2].cells[1].clicks = Num(100)
    /\ heat_df.rows[2].cells[2].clicks = Num(150)
    /\ changes[1][2] = Num(-333)

\* C10: when the previous value is zero, absent or not a number, the change
\* is the undefined marker: computing it does not raise, and the result is
\* neither a number (so never 0) nor an infinity.
C10_UndefinedWhenNoPrevious ==
    (heat_status # "none") =>
        /\ heat_status = "ok"
        /\ \A i \in DOMAIN changes : \A k \in DOMAIN changes[i] :
               LET prev == Column(heat_df, heat_metric, heat_periods[i + 1], k)
               IN  (~Present(prev) \/ NumberOf(prev) = 0) =>
                       changes[i][k] = NaN

\* C17: for N period labels the changes frame has exactly N - 1 columns;
\* column i is named for the pair (Period_i, Period_i+1) and holds, row by
\* row, the change from Period_i+1 (previous) to Period_i (current).  No
\* column compares two periods that are not adjacent.
C17_AdjacentPairsOnly ==
    (heat_status = "ok") =>
        /\ Len(change_cols) = Len(heat_periods) - 1
        /\ Len(changes) = Len(heat_periods) - 1
        /\ \A i \in DOMAIN change_cols :
               /\ change_cols[i] = ChangeCol(heat_periods[i], heat_periods[i + 1])
               /\ \A k \in DOMAIN heat_df.rows :
                      LET cur == Column(heat_df, heat_metric, heat_periods[i], k)
                          prev == Column(heat_df, heat_metric, heat_periods[i + 1], k)
                      IN  changes[i][k] =
                              IF heat_metric = "ctr"
                              THEN FloatSub(ParsePct(cur), ParsePct(prev))
                              ELSE PctChange(cur, prev)

C17_Witness ==
    /\ heat_status = "ok"
    /\ heat_metric = "clicks"
    /\ Len(heat_periods) = 3
    /\ Len(change_cols) = 2
    /\ change_cols[2] = ChangeCol(2, 3)
    /\ Len(heat_df.rows) = 1
    /\ heat_df.rows[1].cells[1].clicks = Num(150)
    /\ heat_df.rows[1].cells[2].clicks = Num(100)
    /\ heat_df.rows[1].cells[3].clicks = Num(150)
    /\ changes[1][1] = Num(500)
    /\ changes[2][1] = Num(-333)

----------------------------------------------------------------------------
(* Claims about the rows of the merged table *)

\* some fetch of this run for u returned rows, in whatever window
HasData(u) == \E w \in DOMAIN date_ranges : GotRows(u, w)

\* C16: the merged table has exactly one row for every URL for which some
\* window's fetch returned rows, no row for a URL whose fetches all returned
\* nothing, and no other rows.
C16_OneRowPerUrlWithData ==
    (pc = "merged") =>
        /\ \A u \in Urls :
               Cardinality(RowsOf(combined_df, u)) = IF HasData(u) THEN 1 ELSE 0
        /\ Len(combined_df.rows) = Cardinality({u \in Urls : HasData(u)})

C16_Witness ==
    /\ pc = "merged"
    /\ Len(date_ranges) = 2
    /\ \E u \in Urls :
           /\ GotRows(u, 1)
           /\ GotRows(u, 2)
           /\ Cardinality(RowsOf(combined_df, u)) = 1
    /\ \E i \in DOMAIN current_urls :
           /\ ~HasData(current_urls[i])
           /\ RowsOf(combined_df, current_urls[i]) = {}

\* the fetches of this run for (u, w) that returned rows, in fetch order
FetchesWithRows(u, w) ==
    {k \in DOMAIN fetch_log :
        /\ fetch_log[k].url = u
        /\ fetch_log[k].window = w
        /\ fetch_log[k].rows # << >>}

\* C19: when several fetched rows fall into the same (URL, window) cell, the
\* merged table holds the values of the first of them in fetch order; the
\* later rows leave no trace, neither as values nor as extra rows.
C19_FirstRowWins ==
    (pc = "merged") =>
        \A u \in Urls : \A w \in DOMAIN date_ranges :
            (Cardinality(FetchesWithRows(u, w)) >= 2) =>
                /\ Cardinality(RowsOf(combined_df, u)) = 1
                /\ \A k \in RowsOf(combined_df, u) :
                       combined_df.rows[k].cells[w] =
                           Metrics(fetch_log[KthSmallest(FetchesWithRows(u, w), 1)].rows[1])

C19_Witness ==
    /\ pc = "merged"
    /\ \E u \in Urls : \E w \in DOMAIN date_ranges :
           \E k1, k2 \in FetchesWithRows(u, w) :
               /\ k1 < k2
               /\ fetch_log[k1].rows # fetch_log[k2].rows
               /\ \A k \in RowsOf(combined_df, u) :
                      /\ combined_df.rows[k].cells[w] = Metrics(fetch_log[k1].rows[1])
                      /\ combined_df.rows[k].cells[w] # Metrics(fetch_log[k2].rows[1])

\* C20: a run of main whose URL list is empty issues no analytics fetch; it
\* ends at once with the note that URLs must be loaded.
C20_NoFetchWithoutUrls ==
    (pc # "idle" /\ current_urls = << >>) =>
        /\ fetch_log = << >>
        /\ pc = "done"
        /\ message = "load_urls"

C20_Witness ==
    /\ pc = "done"
    /\ current_urls = << >>
    /\ message = "load_urls"
    /\ fetch_log = << >>

----------------------------------------------------------------------------
(* Claims about the analysis steps of main *)

\* C11: whenever a run of main has handed its table to the summary step, a
\* summary exists, and for every window label whose column the table has the
\* summary's 'total' is the sum of the column for clicks and impressions and
\* the mean of the column for ctr and position.
C11_SummaryTotals ==
    (summary.status # "none") =>
        /\ summary.status = "ok"
        /\ \A p \in combined_df.cols :
               /\ \A m \in {"clicks", "impressions"} :
                      summary.stats[m][p].total =
                          ColumnSum(ColumnValues(combined_df, m, p))
               /\ \A m \in {"ctr", "position"} :
                      summary.stats[m][p].total =
                          ColumnMean(ColumnValues(combined_df, m, p))

\* C18: no run of main applies arithmetic (sum, mean, min, max) to a ctr
\* column that format_metrics has turned into '%' strings.
C18_NoArithmeticOnText == ~arith_on_text

----------------------------------------------------------------------------
(* Claims about batch_inspect_urls *)

\* the call is over: it returned or it raised
BatchOver == insp_pc \in {"returned", "raised"}

\* C12: every call of batch_inspect_urls ends by returning a mapping whose
\* keys are exactly the submitted URLs; a URL whose inspection raises maps to
\* the error marker with the failure message, every other URL maps to its
\* formatted payload, whatever the other URLs' inspections did.
C12_FanOutComplete ==
    BatchOver =>
        /\ insp_pc = "returned"
        /\ DOMAIN results = {insp_urls[i] : i \in DOMAIN insp_urls}
        /\ \A u \in DOMAIN results :
               results[u] =
                   IF inspect_outcome[u].raised
                   THEN [error |-> inspect_outcome[u].response]
                   ELSE format_inspection_results(inspect_outcome[u].response)

\* C13: at every moment of a batch at most max_workers inspection calls are
\* in flight, and when the batch is over gsc_api.inspect_url has been called
\* exactly len(urls) times.
C13_BoundedPoolOneCallPerEntry ==
    /\ Cardinality(InState("running")) <= max_workers
    /\ BatchOver => calls = Len(insp_urls)

\* C14: a batch ends only by returning, and when it has returned no
\* submitted inspection is still unsubmitted, queued or running.
C14_ReturnsAfterAllFinished ==
    /\ insp_pc # "raised"
    /\ insp_pc = "returned" =>
           \A i \in DOMAIN futures : futures[i].state \in {"done", "collected"}

----------------------------------------------------------------------------
(* Claims about format_inspection_results *)

\* the name of the formatted section made from a section of the payload
FormattedName(section) ==
    CASE section = "indexStatusResult" -> "Coverage"
      [] section = "mobileUsabilityResult" -> "Mobile Usability"
      [] section = "richResultsResult" -> "Rich Results"

\* the payload has the section
HasSection(payload, section) ==
    /\ "inspectionResult" \in DOMAIN payload
    /\ section \in DOMAIN payload["inspectionResult"]

\* C21: whatever sections the payload lacks, format_inspection_results
\* returns a record with exactly the sections Coverage, Mobile Usability,
\* Rich Results and Performance, it is not an error marker, and the verdict of
\* every section the payload lacks is empty.
C21_AbsentSectionsTolerated ==
    (fmt_pc = "returned") =>
        /\ DOMAIN fmt_result =
               {"Coverage", "Mobile Usability", "Rich Results", "Performance"}
        /\ \A section \in {"indexStatusResult", "mobileUsabilityResult",
                           "richResultsResult"} :
               ~HasSection(fmt_payload, section) =>
                   Get(fmt_result[FormattedName(section)], "Verdict", None) = None

C21_Witness ==
    /\ fmt_pc = "returned"
    /\ HasSection(fmt_payload, "indexStatusResult")
    /\ ~HasSection(fmt_payload, "mobileUsabilityResult")
    /\ ~HasSection(fmt_payload, "richResultsResult")
    /\ Get(fmt_payload["inspectionResult"]["indexStatusResult"], "verdict", None) = "PASS"
    /\ fmt_result["Coverage"]["Verdict"] = "PASS"
    /\ fmt_result["Mobile Usability"]["Verdict"] = None
    /\ fmt_result["Mobile Usability"]["Issues"] = << >>
    /\ fmt_result["Rich Results"]["Verdict"] = None

\* the URL list names no URL twice
NoDuplicates(urls) ==
    \A i, j \in DOMAIN urls : urls[i] = urls[j] => i = j

\* C22: for a URL list without duplicates the mapping a batch returns is
\* fixed by the list and by what the inspection does for each URL: each URL
\* maps to its own result or error, in whatever order the calls started,
\* finished and were yielded.
C22_MappingIndependentOfOrder ==
    (insp_pc = "returned" /\ NoDuplicates(insp_urls)) =>
        results = [u \in {insp_urls[i] : i \in DOMAIN insp_urls} |-> inspect_url(u)]

C22_Witness ==
    /\ insp_pc = "returned"
    /\ insp_urls = << 1, 2 >>
    /\ yielded = << 2, 1 >>
    /\ inspect_outcome[1].raised
    /\ ~inspect_outcome[2].raised
    /\ results[1] = [error |-> inspect_outcome[1].response]
    /\ results[2] = format_inspection_results(inspect_outcome[2].response)

\* the submitted inspections that have not finished
Unfinished == InState("queued") \cup InState("running")

\* C24 as stated: the submitting thread never has more than max_workers
\* inspections submitted but unfinished.
C24_SubmitBlocksWhenSaturated ==
    Cardinality(Unfinished) <= max_workers

\* C24 as amended: submission never waits for a worker: while entries remain
\* to be submitted the next submit can go through, however many submitted
\* inspections are unfinished; only the number of inspections running at once
\* is held to max_workers, the others wait in the executor's queue.
C24_SubmitNeverBlocks ==
    /\ (insp_pc = "running" /\ InState("unsubmitted") # {}) => ENABLED Submit
    /\ Cardinality(InState("running")) <= max_workers
    /\ Cardinality(InState("queued")) <= Len(insp_urls)

C24_Witness ==
    /\ insp_pc = "running"
    /\ max_workers = 1
    /\ Len(insp_urls) = 3
    /\ Cardinality(InState("running")) = 1
    /\ Cardinality(InState("queued")) = 2

----------------------------------------------------------------------------
(* Claims about prepare_export_data *)

\* the rows of the exported summary table for the entry (m, p)
ExportRowsOf(m, p) ==
    {k \in DOMAIN export_data.summary :
        export_data.summary[k].metric = m /\ export_data.summary[k].period = p}

\* C23: the exported summary table has exactly one row for every
\* (metric, window) entry of the summary, with that entry's total, average,
\* min and max, and no other row; the exported main table equals the table
\* passed, which has one row per URL and is left as it was.
C23_ExportFlattening ==
    (exp_pc = "returned") =>
        /\ \A m \in DOMAIN exp_summary : \A p \in DOMAIN exp_summary[m] :
               /\ Cardinality(ExportRowsOf(m, p)) = 1
               /\ \A k \in ExportRowsOf(m, p) :
                      /\ export_data.summary[k].total = exp_summary[m][p].total
                      /\ export_data.summary[k].avg = exp_summary[m][p].avg
                      /\ export_data.summary[k].min = exp_summary[m][p].min
                      /\ export_data.summary[k].max = exp_summary[m][p].max
        /\ \A k \in DOMAIN export_data.summary :
               /\ export_data.summary[k].metric \in DOMAIN exp_summary
               /\ export_data.summary[k].period
                      \in DOMAIN exp_summary[export_data.summary[k].metric]
        /\ export_data.url_metrics = exp_df
        /\ \A i, j \in DOMAIN export_data.url_metrics.rows :
               export_data.url_metrics.rows[i].page
                   = export_data.url_metrics.rows[j].page => i = j

C23_Witness ==
    /\ exp_pc = "returned"
    /\ DOMAIN exp_summary["clicks"] = {1, 2}
    /\ exp_summary["clicks"][1] # exp_summary["clicks"][2]
    /\ Len(export_data.summary) = 8
    /\ export_data.summary[1].metric = "clicks"
    /\ export_data.summary[2].metric = "clicks"
    /\ export_data.summary[2].period = 2
    /\ export_data.summary[2].total = exp_summary["clicks"][2].total
    /\ Len(exp_df.rows) = 2
    /\ Len(export_data.url_metrics.rows) = 2

----------------------------------------------------------------------------
(* Claims about batch_fetch_urls *)

\* the rows of the fetches of the log that returned rows, in the order of
\* the log
RECURSIVE FetchedRows(_)
FetchedRows(log) ==
    IF log = << >> THEN << >>
    ELSE (IF Head(log).raised THEN << >> ELSE Head(log).rows)
         \o FetchedRows(Tail(log))

\* C25: when batch_fetch_urls is over it has returned, whatever fetches
\* raised; every list entry was fetched exactly once, in list order; the
\* frame returned holds exactly the rows of the fetches that returned rows,
\* in list order; it is the empty frame exactly when no fetch returned rows.
C25_BatchFetchIsolatesFailures ==
    /\ bf_pc \in {"idle", "loop", "returned"}
    /\ Len(bf_log) <= Len(bf_urls)
    /\ \A k \in DOMAIN bf_log : bf_log[k].url = bf_urls[k]
    /\ (bf_pc = "loop") => (Len(bf_log) < Len(bf_urls) \/ bf_urls = << >>)
    /\ (bf_pc = "returned") =>
           /\ Len(bf_log) = Len(bf_urls)
           /\ bf_result = FetchedRows(bf_log)
           /\ (bf_result = << >>) <=>
                  (\A k \in DOMAIN bf_log :
                       bf_log[k].raised \/ bf_log[k].rows = << >>)

C25_Witness ==
    /\ bf_pc = "returned"
    /\ bf_urls = << 1, 2, 1 >>
    /\ bf_log[1].raised
    /\ ~bf_log[2].raised
    /\ bf_log[2].rows # << >>
    /\ ~bf_log[3].raised
    /\ bf_log[3].rows # << >>
    /\ Len(bf_result) = 2
    /\ bf_result[1].page = 2
    /\ bf_result[2].page = 1

----------------------------------------------------------------------------
(* Claims about the saved URL lists *)

\* the entries of the store other than name are the same before and after
\* the step
OtherEntriesKept(name) ==
    /\ DOMAIN saved_url_lists'.lists \ {name} = DOMAIN saved_url_lists.lists \ {name}
    /\ \A n \in DOMAIN saved_url_lists.lists \ {name} :
           saved_url_lists'.lists[n] = saved_url_lists.lists[n]

\* C27: every URLManager call does this to the store of saved lists: a save
\* with an empty name or an empty list returns False and leaves the store as
\* it is; any other save returns True, changes the entry of its name only,
\* and get_url_list of that name then gives the saved list; a delete returns
\* True and removes the entry of its name only when the name is stored, else
\* it returns False and leaves the store as it is; a get leaves the store as
\* it is and returns the stored list of the name, or None.
C27_StoreFrame ==
    [][ LET c == store_call'
        IN  /\ (c.fn = "save" /\ (c.name = "" \/ c.urls = << >>)) =>
                   /\ store_ret' = BoolRet(FALSE)
                   /\ saved_url_lists' = saved_url_lists
            /\ (c.fn = "save" /\ c.name # "" /\ c.urls # << >>) =>
                   /\ store_ret' = BoolRet(TRUE)
                   /\ c.name \in DOMAIN saved_url_lists'.lists
                   /\ saved_url_lists'.lists[c.name] = c.urls
                   /\ get_url_list(saved_url_lists', c.name) = ListRet(c.urls)
                   /\ OtherEntriesKept(c.name)
            /\ (c.fn = "delete" /\ c.name \in DOMAIN saved_url_lists.lists) =>
                   /\ store_ret' = BoolRet(TRUE)
                   /\ c.name \notin DOMAIN saved_url_lists'.lists
                   /\ OtherEntriesKept(c.name)
            /\ (c.fn = "delete" /\ c.name \notin DOMAIN saved_url_lists.lists) =>
                   /\ store_ret' = BoolRet(FALSE)
                   /\ saved_url_lists' = saved_url_lists
            /\ (c.fn = "get") =>
                   /\ saved_url_lists' = saved_url_lists
                   /\ store_ret' = IF c.name \in DOMAIN saved_url_lists.lists
                                   THEN ListRet(saved_url_lists.lists[c.name])
                                   ELSE NoneRet
      ]_vars

C27_Witness ==
    /\ store_call = [fn |-> "save", name |-> "a", urls |-> << 2, 1 >>]
    /\ store_ret = BoolRet(TRUE)
    /\ DOMAIN saved_url_lists.lists = {"a", "b"}
    /\ saved_url_lists.lists["a"] = << 2, 1 >>
    /\ saved_url_lists.lists["b"] = << 1 >>

----------------------------------------------------------------------------
(* Claims about the login state *)

\* C26: while the session's credentials are None no run gets past the login
\* check: the run is over with the login warning, no fetch was made and the
\* code that talks to the API is not reached; a logout leaves the
\* credentials None, and they stay None until they are set again.
C26_NoRemoteCallLoggedOut ==
    [][ /\ credentials' = None =>
              /\ pc' \in {"idle", "done"}
              /\ fetch_log' = << >>
              /\ pc' = "done" => message' = "login"
        /\ (credentials # None /\ credentials' = None) => Logout
        /\ Logout => credentials' = None
        /\ (credentials = None /\ credentials' # None) => SetCredentials
      ]_vars

\* a run of a logged-out session that was logged in before and had fetched
\* for its URL list
C26_Witness ==
    /\ credentials = None
    /\ pc = "done"
    /\ message = "login"
    /\ current_urls # << >>

====
